---- MODULE Spec2Model ----
(***************************************************************************)
(* Temporal confirmation tracker of the SignFlow gesture recogniser        *)
(* (hook useHandDetection) and the acceptance stage of recognizeGesture.   *)
(*                                                                         *)
(* Confidences are fixed-point numbers: the integer c stands for the       *)
(* JavaScript number c / ConfScale.  Times are milliseconds; the clock     *)
(* advances in steps of TickMs and is kept up to translation: once `now`   *)
(* has reached MaxTime every stored timestamp is moved back instead, so    *)
(* that all differences now - lastTimestamp, the only use the code makes   *)
(* of a timestamp, stay exact up to MaxTime (which exceeds both windows).  *)
(* The several Date.now() calls inside one synchronous frame update read   *)
(* the same value.                                                         *)
(*                                                                         *)
(* The tracker update of a frame (no await between reading and writing the *)
(* refs) is one action.  Two frames may read the same clock value (their   *)
(* distance is below TickMs).  The interval timer of the sweep runs        *)
(* independently of the frames, so a sweep may come at any moment.         *)
(***************************************************************************)
EXTENDS Integers, Sequences, FiniteSets, TLC

\* ------------------------------------------------------------------ bounds
TickMs == 1500
MaxTicks == 6
MaxTime == MaxTicks * TickMs

\* --------------------------------------------------------------- constants
ConfScale == 10000
REQUIRED_MATCHES == 4
QualifyThreshold == 8000
ResetWindow == 3000
expiration == 8000
CooldownFrames == 3
KeepSamples == 3

NoGesture == "null"
Undefined == -1

\* ------------------------------------------------- gesture dictionary
\* "A" and "E" are the seeded alphabet signs; "Custom" is a user-created
\* sign whose complexity lowers its acceptance threshold below the tracker's
\* own threshold, so that recognised-but-not-qualifying results occur.
Gestures == {"A", "E", "Custom"}

availableGestures ==
  [g \in Gestures |->
     IF g = "A"
       THEN [name |-> g, type |-> "alphabet", complexity |-> 1, msaslClass |-> 1]
     ELSE IF g = "E"
       THEN [name |-> g, type |-> "alphabet", complexity |-> 2, msaslClass |-> 5]
       ELSE [name |-> g, type |-> "alphabet", complexity |-> 10, msaslClass |-> 12]]

\* Confidence of the best match before the MS-ASL adjustments (the value of
\* `confidence` on entry to the adjustment stage of recognizeGesture).
\* With these, "A" is returned with 0.891 and 0.99, "E" with 0.95 or not at
\* all, "Custom" with 0.792 (below the tracker's threshold) and 0.88.
MatchConfidences == {9000, 10000}

\* The signs shown to the camera: two signs with one qualifying confidence
\* each in Spec, one sign with two qualifying confidences in MeanSpec.
TwoSigns == {"E", "Custom"}
OneSign == {"A"}

\* ------------------------------------------- recognizeGesture, last stage
complexityAdjustment_Boost(gesture, confidence) ==
  IF gesture.msaslClass # Undefined
    THEN (confidence * (100 + gesture.msaslClass)) \div 100
    ELSE confidence

\* msaslClass is a class index of the MS-ASL dataset, 0 or more.
complexityAdjustment(gesture, confidence) ==
  IF gesture.msaslClass # Undefined
    THEN (confidence * (100 - gesture.msaslClass)) \div 100
    ELSE confidence

confThreshold(gesture) ==
  LET base == IF gesture.type = "alphabet" THEN 8800
              ELSE IF gesture.type = "phrase" THEN 8500
              ELSE 9500
  IN  IF gesture.complexity # Undefined
        THEN base - gesture.complexity * 100
        ELSE base

\* The result is a sequence: empty for null, one RecognitionResult otherwise.
recognizeGesture(gesture, matchConfidence) ==
  LET confidence == complexityAdjustment(gesture, matchConfidence)
  IN  IF confidence > confThreshold(gesture)
        THEN << [gesture |-> gesture, confidence |-> confidence] >>
        ELSE << >>

\* ----------------------------------------------------------------- state
VARIABLES
  confidenceHistory,     \* confidenceHistoryRef.current : name -> entry
  lastDetectedGesture,   \* lastDetectedGestureRef.current
  detectionCount,        \* detectionCountRef.current
  now,                   \* Date.now()
  emitted,               \* calls of onGestureDetected made by the last step
  step,                  \* what the last step was and what it saw
  lastFrameEmitted,      \* names emitted by the most recent processed frame
  prevFrameEmitted,      \* names emitted by the processed frame before it
  streak,                \* trailing processed frames that matched one gesture
  run,                   \* matches fed in a row since an entry was absent
  chain,                 \* per gesture: matches linked by gaps within the window
  firstEvent,            \* the first event of a gesture since its entry was created
  loop,                  \* the detection effect: props, detectionLoopRef, closures
  trial                  \* one call of a pure function: its arguments and result

vars == << confidenceHistory, lastDetectedGesture, detectionCount, now,
           emitted, step, lastFrameEmitted, prevFrameEmitted, streak, run,
           chain,
           firstEvent, loop, trial >>

\* ------------------------------------------------------------ Map helpers
MapHas(m, k) == k \in DOMAIN m
MapSet(m, k, v) == [x \in (DOMAIN m) \cup {k} |-> IF x = k THEN v ELSE m[x]]
MapDelete(m, ks) == [x \in (DOMAIN m) \ ks |-> m[x]]
EmptyMap == [x \in {} |-> 0]

RECURSIVE SeqSum(_)
SeqSum(s) == IF s = << >> THEN 0 ELSE Head(s) + SeqSum(Tail(s))

\* Array.prototype.slice(-n)
SliceLast(s, n) == IF Len(s) <= n THEN s ELSE SubSeq(s, Len(s) - n + 1, Len(s))

\* --------------------------------------------- runDetection, tracker part
IsQualifying_Lenient(confidence) == confidence > QualifyThreshold - 1000

IsQualifying(confidence) == confidence > QualifyThreshold

GetHistory(map, gestureName, t) ==
  IF MapHas(map, gestureName)
    THEN map[gestureName]
    ELSE [count |-> 0, confidences |-> << >>, lastTimestamp |-> t]

ResetIfStale_Never(history, t) == history

ResetIfStale(history, t) ==
  IF t - history.lastTimestamp > ResetWindow
    THEN [history EXCEPT !.count = 0, !.confidences = << >>]
    ELSE history

RecordMatch_CountOnly(history, confidence, t) ==
  [count |-> history.count + 1,
   confidences |-> history.confidences,
   lastTimestamp |-> t]

RecordMatch(history, confidence, t) ==
  [count |-> history.count + 1,
   confidences |-> Append(history.confidences, confidence),
   lastTimestamp |-> t]

ReachedRequired_OneEarly(history) == history.count >= REQUIRED_MATCHES - 1

ReachedRequired(history) == history.count >= REQUIRED_MATCHES

avgConfidence_KeptSamples(confidences) ==
  [num |-> SeqSum(SliceLast(confidences, KeepSamples)),
   den |-> Len(SliceLast(confidences, KeepSamples))]

\* The quotient sum / length, kept as an exact fraction.
avgConfidence(confidences) ==
  [num |-> SeqSum(confidences), den |-> Len(confidences)]

CooldownPassed_Always(last, count, gestureName) ==
  last # gestureName \/ count >= 0

CooldownPassed(last, count, gestureName) ==
  last # gestureName \/ count > CooldownFrames

HistoryAfterEmit_Reset(history, t) ==
  [count |-> 0, confidences |-> << >>, lastTimestamp |-> t]

HistoryAfterEmit(history, t) ==
  [count |-> REQUIRED_MATCHES - 1,
   confidences |-> SliceLast(history.confidences, KeepSamples),
   lastTimestamp |-> t]

onGestureDetected_Twice(gestureName, avg, t) ==
  << [gesture |-> gestureName, confidence |-> avg, timestamp |-> t],
     [gesture |-> gestureName, confidence |-> avg, timestamp |-> t] >>

onGestureDetected(gestureName, avg, t) ==
  << [gesture |-> gestureName, confidence |-> avg, timestamp |-> t] >>

\* ------------------------------------------------------------ observers
\* The observers record what was fed and what came out; no action of the
\* program reads them.
Min(a, b) == IF a <= b THEN a ELSE b

NoStreak == [gesture |-> NoGesture, n |-> 0]
NoRun == [gesture |-> NoGesture, n |-> 0, fedSum |-> 0, shape |-> "none",
          events |-> 0, held |-> FALSE, age |-> 0]
NoChain == [n |-> 0, age |-> 0, awaitingFirst |-> FALSE]

\* Time since an observed frame, followed up to the first value beyond the
\* reset window.
AgeCap == (ResetWindow \div TickMs + 1) * TickMs
Older(age) == Min(age + TickMs, AgeCap)

EventsFor(events, g) == Cardinality({i \in DOMAIN events : events[i].gesture = g})

\* run: the frames fed for one gesture g in a row, the first of them in a
\* state where g had no history entry.  shape "tight": every gap is below
\* the reset window; shape "late2": the gap between frames 1 and 2 exceeds
\* the window and every later gap is below it.  held: at the first frame g
\* was the last detected gesture with the cooldown counter not above 3.
NextRun(g, c) ==
  IF ~MapHas(confidenceHistory, g)
    THEN [gesture |-> g, n |-> 1, fedSum |-> c, shape |-> "tight",
          events |-> EventsFor(emitted', g),
          held |-> (lastDetectedGesture = g /\ detectionCount <= CooldownFrames),
          age |-> 0]
  ELSE IF run.gesture = g /\ run.shape = "tight" /\ run.n < REQUIRED_MATCHES
            /\ run.age < ResetWindow
    THEN [run EXCEPT !.n = @ + 1, !.fedSum = @ + c, !.age = 0,
                     !.events = @ + EventsFor(emitted', g)]
  ELSE IF run.gesture = g /\ run.shape = "tight" /\ run.n = 1
            /\ run.age > ResetWindow
    THEN [run EXCEPT !.n = 2, !.shape = "late2", !.fedSum = 0, !.age = 0,
                     !.events = @ + EventsFor(emitted', g)]
  ELSE IF run.gesture = g /\ run.shape = "late2" /\ run.n < REQUIRED_MATCHES + 1
            /\ run.age < ResetWindow
    THEN [run EXCEPT !.n = @ + 1, !.age = 0,
                     !.events = @ + EventsFor(emitted', g)]
  ELSE NoRun

\* chain[g] follows g from the creation of its history entry to the first
\* event for g: n counts the matches of g each at most the reset window
\* after the previous one.  streak counts the trailing processed frames
\* that all matched one such gesture.  firstEvent describes a frame that
\* emitted the first event for a gesture since its entry was created.
NoFirst == [gesture |-> NoGesture, streak |-> 0, chainN |-> 0]

ChainN(g) ==
  IF chain[g].n > 0 /\ chain[g].age <= ResetWindow
    THEN Min(chain[g].n + 1, REQUIRED_MATCHES) ELSE 1

StreakN(g) ==
  IF streak.gesture = g THEN Min(streak.n + 1, REQUIRED_MATCHES) ELSE 1

Awaited(g) == ~MapHas(confidenceHistory, g) \/ chain[g].awaitingFirst

ObserveFrame ==
  LET g == step'.gesture
      matched == step'.kind = "match"
      event == matched /\ EventsFor(emitted', g) > 0
      awaiting == matched /\ Awaited(g) /\ ~event
  IN  /\ lastFrameEmitted' = {emitted'[i].gesture : i \in DOMAIN emitted'}
      /\ prevFrameEmitted' = lastFrameEmitted
      /\ firstEvent' = IF event /\ Awaited(g)
                         THEN [gesture |-> g, streak |-> StreakN(g), chainN |-> ChainN(g)]
                         ELSE NoFirst
      /\ streak' = IF awaiting THEN [gesture |-> g, n |-> StreakN(g)] ELSE NoStreak
      /\ chain' = IF ~matched THEN chain
                  ELSE IF awaiting
                    THEN [chain EXCEPT ![g] = [n |-> ChainN(g), age |-> 0,
                                               awaitingFirst |-> TRUE]]
                    ELSE [chain EXCEPT ![g] = NoChain]
      /\ run' = IF matched THEN NextRun(g, step'.confidence) ELSE NoRun

\* An entry that no longer exists awaits nothing.
ObserveSweep ==
  /\ chain' = [g \in Gestures |->
                 IF MapHas(confidenceHistory', g) THEN chain[g] ELSE NoChain]
  /\ streak' = IF streak.gesture # NoGesture /\ ~MapHas(confidenceHistory', streak.gesture)
                 THEN NoStreak ELSE streak
  /\ firstEvent' = NoFirst
  /\ UNCHANGED << lastFrameEmitted, prevFrameEmitted, run >>

ObserveTick ==
  /\ run' = IF run.gesture = NoGesture THEN run ELSE [run EXCEPT !.age = Older(@)]
  /\ chain' = [g \in Gestures |->
                 IF chain[g].n = 0 THEN chain[g]
                 ELSE IF Older(chain[g].age) > ResetWindow
                   THEN [chain[g] EXCEPT !.n = 0, !.age = 0]
                   ELSE [chain[g] EXCEPT !.age = Older(@)]]
  /\ firstEvent' = NoFirst
  /\ UNCHANGED << lastFrameEmitted, prevFrameEmitted, streak >>

\* count, listSum and listLen describe the entry of the matched gesture after
\* the frame's increment and before any emission; late tells that the match
\* arrived more than the reset window after the entry's last-seen timestamp.
NoStep == [kind |-> "init", gesture |-> NoGesture, confidence |-> 0,
           count |-> 0, listSum |-> 0, listLen |-> 0, late |-> FALSE]

NoHandFrame_ClearsHistory ==
  /\ lastDetectedGesture' = NoGesture
  /\ detectionCount' = 0
  /\ emitted' = << >>
  /\ step' = [NoStep EXCEPT !.kind = "nohand"]
  /\ confidenceHistory' = EmptyMap
  /\ UNCHANGED now
  /\ ObserveFrame

\* A frame in which detectHands reports no hand.
NoHandFrame ==
  /\ lastDetectedGesture' = NoGesture
  /\ detectionCount' = 0
  /\ emitted' = << >>
  /\ step' = [NoStep EXCEPT !.kind = "nohand"]
  /\ UNCHANGED << confidenceHistory, now >>
  /\ ObserveFrame

\* A frame with a hand for which estimateHands returns no prediction.
NoPredictionFrame ==
  /\ emitted' = << >>
  /\ step' = [NoStep EXCEPT !.kind = "noresult"]
  /\ UNCHANGED << confidenceHistory, lastDetectedGesture, detectionCount, now >>
  /\ ObserveFrame

\* The tracker update for a non-null recognitionResult.
TrackResult(result) ==
  LET gestureName == result.gesture.name
      history == RecordMatch(
                   ResetIfStale(GetHistory(confidenceHistory, gestureName, now), now),
                   result.confidence, now)
  IN  IF ~IsQualifying(result.confidence)
        THEN /\ emitted' = << >>
             /\ step' = [NoStep EXCEPT !.kind = "lowconf", !.gesture = gestureName,
                                       !.confidence = result.confidence]
             /\ UNCHANGED << confidenceHistory, lastDetectedGesture, detectionCount >>
        ELSE /\ step' = [kind |-> "match", gesture |-> gestureName,
                         confidence |-> result.confidence,
                         count |-> history.count,
                         listSum |-> SeqSum(history.confidences),
                         listLen |-> Len(history.confidences),
                         late |-> /\ MapHas(confidenceHistory, gestureName)
                                  /\ now - confidenceHistory[gestureName].lastTimestamp
                                       > ResetWindow]
             /\ IF ReachedRequired(history)
                  THEN IF CooldownPassed(lastDetectedGesture, detectionCount, gestureName)
                         THEN /\ lastDetectedGesture' = gestureName
                              /\ detectionCount' = 0
                              /\ confidenceHistory' =
                                   MapSet(confidenceHistory, gestureName,
                                          HistoryAfterEmit(history, now))
                              /\ emitted' = onGestureDetected(gestureName,
                                              avgConfidence(history.confidences), now)
                         ELSE /\ detectionCount' = detectionCount + 1
                              /\ confidenceHistory' =
                                   MapSet(confidenceHistory, gestureName, history)
                              /\ emitted' = << >>
                              /\ UNCHANGED lastDetectedGesture
                  ELSE /\ confidenceHistory' =
                            MapSet(confidenceHistory, gestureName, history)
                       /\ emitted' = << >>
                       /\ UNCHANGED << lastDetectedGesture, detectionCount >>

\* A frame with a hand and a prediction: recognizeGesture, then the tracker.
HandFrame(g, matchConfidence) ==
  LET recognitionResult == recognizeGesture(availableGestures[g], matchConfidence)
  IN  /\ IF recognitionResult = << >>
           THEN /\ emitted' = << >>
                /\ step' = [NoStep EXCEPT !.kind = "noresult"]
                /\ UNCHANGED << confidenceHistory, lastDetectedGesture, detectionCount >>
           ELSE TrackResult(recognitionResult[1])
      /\ UNCHANGED now
      /\ ObserveFrame

\* ------------------------------------------------------ cleanupInterval
Sweep_Zeroes ==
  /\ confidenceHistory' =
       [key \in DOMAIN confidenceHistory |->
          IF now - confidenceHistory[key].lastTimestamp > expiration
            THEN [confidenceHistory[key] EXCEPT !.count = 0, !.confidences = << >>]
            ELSE confidenceHistory[key]]
  /\ emitted' = << >>
  /\ step' = [NoStep EXCEPT !.kind = "sweep"]
  /\ UNCHANGED << lastDetectedGesture, detectionCount, now >>
  /\ UNCHANGED << lastFrameEmitted, prevFrameEmitted, streak, run, chain >>
  /\ firstEvent' = NoFirst
  /\ UNCHANGED << loop, trial >>

IsExpired_ResetWindow(value, t) == t - value.lastTimestamp > ResetWindow

IsExpired(value, t) == t - value.lastTimestamp > expiration

Sweep ==
  /\ confidenceHistory' =
       MapDelete(confidenceHistory,
                 {key \in DOMAIN confidenceHistory : IsExpired(confidenceHistory[key], now)})
  /\ emitted' = << >>
  /\ step' = [NoStep EXCEPT !.kind = "sweep"]
  /\ UNCHANGED << lastDetectedGesture, detectionCount, now >>
  /\ ObserveSweep
  /\ UNCHANGED << loop, trial >>

\* ------------------------------------------------------------- the clock
ShiftBack(t) == IF t >= TickMs THEN t - TickMs ELSE 0

\* Time passes by TickMs.
Advance ==
  /\ IF now + TickMs <= MaxTime
       THEN /\ now' = now + TickMs
            /\ UNCHANGED confidenceHistory
       ELSE /\ now' = now
            /\ confidenceHistory' =
                 [k \in DOMAIN confidenceHistory |->
                    [confidenceHistory[k] EXCEPT
                       !.lastTimestamp = ShiftBack(confidenceHistory[k].lastTimestamp)]]
  /\ emitted' = << >>
  /\ step' = [NoStep EXCEPT !.kind = "tick"]
  /\ UNCHANGED << lastDetectedGesture, detectionCount >>
  /\ ObserveTick

Tick == Advance /\ UNCHANGED << loop, trial >>

\* ------------------------------------------------ getFingerprintMatches
\* A finger-state vector lists thumb, index, middle, ring, pinky (JavaScript
\* index i is position i + 1).  A candidate gesture is a record name, type,
\* complexity, hasMotion, fingerPattern, msaslClass; NoPattern stands for a
\* fingerPattern that is null or undefined.  Matcher confidences are
\* fixed-point numbers of unit 1 / MatchScale, weights of unit 1 / 100: with
\* these units every product and quotient of the matcher is exact.
MatchScale == 100000
FingerVectors == [1..5 -> BOOLEAN]
AllExtended == << TRUE, TRUE, TRUE, TRUE, TRUE >>
ClosedFist == << FALSE, FALSE, FALSE, FALSE, FALSE >>
NoPattern == << >>

PatternNames ==
  {"A", "B", "C", "D", "E", "F", "G", "H", "I", "J", "K", "L", "M", "N",
   "O", "P", "Q", "R", "S", "T", "U", "V", "W", "X", "Y", "Z", "Hello",
   "Thank You", "Please", "Sorry", "Help", "Yes", "No", "Good", "Bad",
   "Love"}

\* The table `patterns`: the expected vector of each name.
fingerPatternOf(name) ==
  CASE name = "A" -> << TRUE, FALSE, FALSE, FALSE, FALSE >>
    [] name = "B" -> << FALSE, TRUE, TRUE, TRUE, TRUE >>
    [] name = "C" -> << FALSE, FALSE, FALSE, FALSE, FALSE >>
    [] name = "D" -> << TRUE, TRUE, FALSE, FALSE, FALSE >>
    [] name = "E" -> << FALSE, FALSE, FALSE, FALSE, FALSE >>
    [] name = "F" -> << TRUE, TRUE, FALSE, FALSE, FALSE >>
    [] name = "G" -> << TRUE, TRUE, FALSE, FALSE, FALSE >>
    [] name = "H" -> << TRUE, TRUE, TRUE, FALSE, FALSE >>
    [] name = "I" -> << FALSE, FALSE, FALSE, FALSE, TRUE >>
    [] name = "J" -> << FALSE, FALSE, FALSE, FALSE, TRUE >>
    [] name = "K" -> << TRUE, TRUE, TRUE, FALSE, FALSE >>
    [] name = "L" -> << TRUE, TRUE, FALSE, FALSE, FALSE >>
    [] name = "M" -> << FALSE, FALSE, FALSE, FALSE, FALSE >>
    [] name = "N" -> << FALSE, FALSE, FALSE, FALSE, FALSE >>
    [] name = "O" -> << FALSE, FALSE, FALSE, FALSE, FALSE >>
    [] name = "P" -> << TRUE, TRUE, FALSE, FALSE, FALSE >>
    [] name = "Q" -> << TRUE, TRUE, FALSE, FALSE, FALSE >>
    [] name = "R" -> << TRUE, TRUE, TRUE, FALSE, FALSE >>
    [] name = "S" -> << FALSE, FALSE, FALSE, FALSE, FALSE >>
    [] name = "T" -> << FALSE, FALSE, FALSE, FALSE, FALSE >>
    [] name = "U" -> << TRUE, TRUE, TRUE, FALSE, FALSE >>
    [] name = "V" -> << TRUE, TRUE, TRUE, FALSE, FALSE >>
    [] name = "W" -> << TRUE, TRUE, TRUE, TRUE, FALSE >>
    [] name = "X" -> << TRUE, FALSE, FALSE, FALSE, FALSE >>
    [] name = "Y" -> << TRUE, FALSE, FALSE, FALSE, TRUE >>
    [] name = "Z" -> << TRUE, TRUE, FALSE, FALSE, FALSE >>
    [] name = "Hello" -> << TRUE, TRUE, TRUE, TRUE, TRUE >>
    [] name = "Thank You" -> << TRUE, FALSE, FALSE, FALSE, FALSE >>
    [] name = "Please" -> << TRUE, FALSE, FALSE, FALSE, FALSE >>
    [] name = "Sorry" -> << FALSE, FALSE, FALSE, FALSE, FALSE >>
    [] name = "Help" -> << TRUE, TRUE, FALSE, FALSE, FALSE >>
    [] name = "Yes" -> << TRUE, FALSE, FALSE, FALSE, FALSE >>
    [] name = "No" -> << TRUE, TRUE, TRUE, FALSE, FALSE >>
    [] name = "Good" -> << TRUE, FALSE, FALSE, FALSE, FALSE >>
    [] name = "Bad" -> << TRUE, FALSE, FALSE, FALSE, FALSE >>
    [] name = "Love" -> << TRUE, FALSE, FALSE, FALSE, FALSE >>

hasVerifyFn(name) ==
  name \in {"A", "B", "D", "G", "H", "I", "L", "U", "V", "W", "Y", "Hello"}

\* The verifyFn of a name that has one.
verifyFn(name, fingers) ==
  CASE name = "A" -> fingers[1] /\ ~(\E i \in 2..5 : fingers[i])
    [] name = "B" -> ~fingers[1] /\ (\A i \in 2..5 : fingers[i])
    [] name = "D" -> fingers[1] /\ fingers[2] /\ ~fingers[3] /\ ~fingers[4] /\ ~fingers[5]
    [] name = "G" -> fingers[1] /\ fingers[2] /\ ~fingers[3] /\ ~fingers[4] /\ ~fingers[5]
    [] name = "H" -> fingers[1] /\ fingers[2] /\ fingers[3] /\ ~fingers[4] /\ ~fingers[5]
    [] name = "I" -> ~fingers[1] /\ ~fingers[2] /\ ~fingers[3] /\ ~fingers[4] /\ fingers[5]
    [] name = "L" -> fingers[1] /\ fingers[2] /\ ~fingers[3] /\ ~fingers[4] /\ ~fingers[5]
    [] name = "U" -> fingers[1] /\ fingers[2] /\ fingers[3] /\ ~fingers[4] /\ ~fingers[5]
    [] name = "V" -> fingers[1] /\ fingers[2] /\ fingers[3] /\ ~fingers[4] /\ ~fingers[5]
    [] name = "W" -> fingers[1] /\ fingers[2] /\ fingers[3] /\ fingers[4] /\ ~fingers[5]
    [] name = "Y" -> fingers[1] /\ ~fingers[2] /\ ~fingers[3] /\ ~fingers[4] /\ fingers[5]
    [] name = "Hello" -> \A i \in 1..5 : fingers[i]

\* The entry added to `patterns` for a name the table does not hold.
defaultPattern_AllExtended(gesture) == AllExtended

defaultPattern(gesture) ==
  IF gesture.fingerPattern # NoPattern THEN gesture.fingerPattern ELSE AllExtended

\* patterns[gesture.name] after the defaults were added.
patternInfo(gesture) ==
  IF gesture.name \in PatternNames
    THEN [fingerPattern |-> fingerPatternOf(gesture.name),
          hasVerifyFn |-> hasVerifyFn(gesture.name)]
    ELSE [fingerPattern |-> defaultPattern(gesture), hasVerifyFn |-> FALSE]

weights == << 100, 130, 100, 80, 90 >>
totalWeight == SeqSum(weights)

missedPenalty_Moderate(w) == (w * 8) \div 10

\* weights[i] * 1.2: the finger should be extended but is not.
missedPenalty(w) == (w * 12) \div 10

extraPenalty_None(w) == 0

\* weights[i] * 0.8: the finger should be closed but is extended.
extraPenalty(w) == (w * 8) \div 10

\* The contribution of finger i to weightedScore.
fingerScore(expected, extended, w) ==
  IF extended = expected THEN w
  ELSE IF expected /\ ~extended THEN 0 - missedPenalty(w)
  ELSE 0 - extraPenalty(w)

weightedScore(fingers, pattern) ==
  SeqSum([i \in 1..5 |-> fingerScore(pattern[i], fingers[i], weights[i])])

\* 0.1 for a score that is not positive, else min(1.0, score / totalWeight).
baseConfidence(score) ==
  IF score <= 0
    THEN MatchScale \div 10
    ELSE Min(MatchScale, (score * MatchScale) \div totalWeight)

\* confidence *= 0.9 for a phrase, confidence *= 0.85 for a sign with motion.
typeAdjusted(gesture, confidence) ==
  LET forType == IF gesture.type = "phrase" THEN (confidence * 9) \div 10
                 ELSE confidence
  IN  IF gesture.hasMotion THEN (forType * 85) \div 100 ELSE forType

verifyFailure_Adjusted(gesture) == typeAdjusted(gesture, MatchScale \div 10)

\* return { gesture, confidence: 0.1 }
verifyFailure(gesture) == MatchScale \div 10

\* The callback of availableGestures.map.
scoreGesture(fingers, gesture) ==
  LET info == patternInfo(gesture)
  IN  IF info.hasVerifyFn /\ ~verifyFn(gesture.name, fingers)
        THEN [gesture |-> gesture, confidence |-> verifyFailure(gesture)]
        ELSE [gesture |-> gesture,
              confidence |->
                typeAdjusted(gesture,
                  baseConfidence(weightedScore(fingers, info.fingerPattern)))]

scoreAll(fingers, gestures) ==
  [i \in 1..Len(gestures) |-> scoreGesture(fingers, gestures[i])]

minConfidence_Flat(gesture) ==
  IF gesture.complexity # Undefined
    THEN (8 * MatchScale) \div 10 - gesture.complexity * (MatchScale \div 100)
    ELSE (8 * MatchScale) \div 10

\* The floor of the filter: 0.85 for alphabet, 0.80 for phrase and the
\* rest, less complexity / 100 where the gesture has a complexity.
minConfidence(gesture) ==
  LET base == IF gesture.type = "alphabet" THEN (85 * MatchScale) \div 100
              ELSE IF gesture.type = "phrase" THEN (80 * MatchScale) \div 100
              ELSE (8 * MatchScale) \div 10
  IN  IF gesture.complexity # Undefined
        THEN base - gesture.complexity * (MatchScale \div 100)
        ELSE base

\* The callback of filter.
aboveFloor(result) == result.confidence > minConfidence(result.gesture)

\* Array.prototype.sort with (a, b) => b.confidence - a.confidence: stable,
\* highest confidence first.
RECURSIVE insertByConfidence(_, _)
insertByConfidence(sorted, result) ==
  IF sorted = << >> THEN << result >>
  ELSE IF Head(sorted).confidence >= result.confidence
    THEN << Head(sorted) >> \o insertByConfidence(Tail(sorted), result)
    ELSE << result >> \o sorted

RECURSIVE sortByConfidence(_)
sortByConfidence(results) ==
  IF results = << >> THEN << >>
  ELSE insertByConfidence(sortByConfidence(SubSeq(results, 1, Len(results) - 1)),
                          results[Len(results)])

getFingerprintMatches(fingers, gestures) ==
  sortByConfidence(SelectSeq(scoreAll(fingers, gestures), aboveFloor))

\* ------------------------------------------------- inputs of the matcher
Types == {"alphabet", "phrase", "word"}
Complexities == {Undefined, 1, 5, 10}

\* Gestures of every name of the table, and user-created gestures ("Custom",
\* no entry in the table) with and without a fingerPattern of their own.
TableCandidates ==
  [name : PatternNames, type : Types, complexity : Complexities,
   hasMotion : BOOLEAN, fingerPattern : {NoPattern}, msaslClass : {Undefined}]

CustomCandidates ==
  [name : {"Custom"}, type : Types, complexity : Complexities,
   hasMotion : BOOLEAN, fingerPattern : {NoPattern} \cup FingerVectors,
   msaslClass : {Undefined}]

Candidates == TableCandidates \cup CustomCandidates

Sign(name, type, complexity, hasMotion, fingerPattern) ==
  [name |-> name, type |-> type, complexity |-> complexity,
   hasMotion |-> hasMotion, fingerPattern |-> fingerPattern,
   msaslClass |-> Undefined]

\* The gestures that occur in lists of several candidates: the seeded Hello,
\* signs that tie (C and E), a sign with and one without verifyFn for one
\* pattern (A and X), and user-created signs of each type.
ListedCandidates ==
  {Sign("Hello", "phrase", 1, TRUE, NoPattern),
   Sign("A", "alphabet", 1, FALSE, NoPattern),
   Sign("X", "alphabet", 5, FALSE, NoPattern),
   Sign("C", "alphabet", 1, FALSE, NoPattern),
   Sign("E", "alphabet", 1, FALSE, NoPattern),
   Sign("Sorry", "phrase", 1, FALSE, NoPattern),
   Sign("Custom", "word", 1, FALSE, NoPattern),
   Sign("Custom", "phrase", 1, FALSE, NoPattern),
   Sign("Custom", "alphabet", 1, TRUE, NoPattern),
   Sign("Custom", "word", 10, FALSE, << TRUE, TRUE, TRUE, FALSE, TRUE >>)}

MaxCandidates == 2

RECURSIVE ListsOf(_, _)
ListsOf(S, n) ==
  IF n = 0 THEN {<< >>}
  ELSE LET shorter == ListsOf(S, n - 1)
       IN  shorter \cup {Append(l, x) : l \in {s \in shorter : Len(s) = n - 1}, x \in S}

CandidateLists ==
  {<< c >> : c \in Candidates} \cup ListsOf(ListedCandidates, MaxCandidates)

\* ------------------------------------------- recognizeGesture, one frame
\* A landmark frame is described by what the code reads of it: points is
\* handLandmarks.length; fingers is what detectExtendedFingers computes
\* from the points 0 .. 20; thumbAside, spread and facingCamera are the
\* outcomes of the geometric tests of the special cases.  handLandmarks[i]
\* is undefined from index `points` on, and reading a coordinate of
\* undefined throws a TypeError.
MaxPoints == 22

\* The indices read by extractFeatures, recognizeGesture itself,
\* detectExtendedFingers, calculateFingerCurls and calculatePalmNormal.
ReadIndices ==
  {0, 4, 8, 12, 16, 20} \cup {0, 9, 4, 5, 1, 8, 12}
    \cup {0, 1, 2, 4, 5, 6, 8, 9, 10, 12, 13, 14, 16, 17, 18, 20}
    \cup {1, 2, 4, 5, 6, 8, 9, 10, 12, 13, 14, 16, 17, 18, 20}
    \cup {0, 5, 17}

Throws(handLandmarks) == \E i \in ReadIndices : i >= handLandmarks.points

Max(a, b) == IF a >= b THEN a ELSE b

\* A matcher confidence in the unit of RecognitionResult.confidence.
toConfScale(confidence) == confidence \div (MatchScale \div ConfScale)

\* availableGestures.find(g => g.name === name) || matchedGesture
FindGesture(gestures, name, matchedGesture) ==
  LET hits == {i \in DOMAIN gestures : gestures[i].name = name}
  IN  IF hits = {} THEN matchedGesture
      ELSE gestures[CHOOSE i \in hits : \A k \in hits : i <= k]

numExtendedFingers(fingers) == Cardinality({i \in 1..5 : fingers[i]})

NumberNames == {"1", "2", "3", "4", "5"}

parseInt(name) ==
  CASE name = "1" -> 1 [] name = "2" -> 2 [] name = "3" -> 3
    [] name = "4" -> 4 [] name = "5" -> 5

\* Case 1: 'A' against 'S'.
caseAS(m, handLandmarks, gestures) ==
  IF /\ m.gesture.name \in {"A", "S"}
     /\ handLandmarks.fingers[1]
     /\ ~(\E i \in 2..5 : handLandmarks.fingers[i])
     /\ handLandmarks.thumbAside
    THEN [gesture |-> FindGesture(gestures, "A", m.gesture),
          confidence |-> Max(m.confidence, (85 * ConfScale) \div 100)]
    ELSE m

\* Case 2: 'U' against 'V'.
caseUV(m, handLandmarks, gestures) ==
  IF /\ m.gesture.name \in {"U", "V"}
     /\ handLandmarks.fingers[2] /\ handLandmarks.fingers[3]
     /\ ~handLandmarks.fingers[4] /\ ~handLandmarks.fingers[5]
    THEN IF handLandmarks.spread
           THEN [gesture |-> FindGesture(gestures, "V", m.gesture),
                 confidence |-> (9 * ConfScale) \div 10]
           ELSE [gesture |-> FindGesture(gestures, "U", m.gesture),
                 confidence |-> (9 * ConfScale) \div 10]
    ELSE m

\* Case 3: 'Hello' with the palm facing the camera.
caseHello(m, handLandmarks) ==
  IF m.gesture.name = "Hello" /\ (\A i \in 1..5 : handLandmarks.fingers[i])
    THEN IF handLandmarks.facingCamera
           THEN [m EXCEPT !.confidence = (95 * ConfScale) \div 100]
           ELSE [m EXCEPT !.confidence = (@ * 5) \div 10]
    ELSE m

\* Case 4: the number signs.
caseNumber(m, handLandmarks) ==
  IF m.gesture.name \in NumberNames
    THEN IF numExtendedFingers(handLandmarks.fingers) = parseInt(m.gesture.name)
           THEN [m EXCEPT !.confidence = Max(@, (9 * ConfScale) \div 10)]
           ELSE [m EXCEPT !.confidence = (@ * 3) \div 10]
    ELSE m

\* matchedGesture and confidence after the special cases: empty if the
\* matcher returned no candidate, else one record.
selectedMatch(handLandmarks, gestures) ==
  LET gestureMatches == getFingerprintMatches(handLandmarks.fingers, gestures)
  IN  IF gestureMatches = << >> THEN << >>
      ELSE LET top == [gesture |-> gestureMatches[1].gesture,
                       confidence |-> toConfScale(gestureMatches[1].confidence)]
           IN  << caseNumber(
                    caseHello(
                      caseUV(caseAS(top, handLandmarks, gestures),
                             handLandmarks, gestures),
                      handLandmarks),
                    handLandmarks) >>

\* The body of the try block, for a frame whose reads all succeed.
classify(handLandmarks, gestures) ==
  LET selected == selectedMatch(handLandmarks, gestures)
  IN  IF selected = << >> THEN << >>
      ELSE recognizeGesture(selected[1].gesture, selected[1].confidence)

\* recognizeGesture(handLandmarks, availableGestures): the guard, the try
\* block and the catch.  result is empty for null; caught tells that the
\* catch block ran; rejected tells that the promise was rejected.
recognizeLandmarks(handLandmarks, gestures) ==
  IF handLandmarks.points = 0
    THEN [result |-> << >>, caught |-> FALSE, rejected |-> FALSE]
  ELSE IF Throws(handLandmarks)
    THEN [result |-> << >>, caught |-> TRUE, rejected |-> FALSE]
    ELSE [result |-> classify(handLandmarks, gestures),
          caught |-> FALSE, rejected |-> FALSE]

LandmarkFrames ==
  [points : 0..MaxPoints, fingers : FingerVectors, thumbAside : BOOLEAN,
   spread : BOOLEAN, facingCamera : BOOLEAN]

Seeded(name, type, complexity, hasMotion, fingerPattern, msaslClass) ==
  [name |-> name, type |-> type, complexity |-> complexity,
   hasMotion |-> hasMotion, fingerPattern |-> fingerPattern,
   msaslClass |-> msaslClass]

\* Gestures as the server seeds them.
SeededGestures ==
  << Seeded("A", "alphabet", 1, FALSE, << TRUE, FALSE, FALSE, FALSE, FALSE >>, 1),
     Seeded("E", "alphabet", 2, FALSE, << FALSE, FALSE, FALSE, FALSE, FALSE >>, 5),
     Seeded("U", "alphabet", 2, FALSE, NoPattern, 21),
     Seeded("V", "alphabet", 2, FALSE, NoPattern, 22),
     Seeded("Hello", "phrase", 1, TRUE, AllExtended, 100) >>

\* ------------------------------------------- detectExtendedFingers
\* A finger other than the thumb is described by what the code measures on
\* it: ratio is distance(tip, palm) / distance(baseKnuckle, palm) in
\* hundredths; degenerate tells that a magnitude in angleBetweenThreePoints
\* is 0 or the cosine leaves [-1, 1], so that Math.acos yields NaN; degrees
\* is the angle otherwise.  NaN is a value of its own, above every angle and
\* every ratio of the model; the comparisons of JavaScript are false for it.
NaN == 999

greaterThan_Numeric(x, y) == x > y

\* x > y
greaterThan(x, y) == x # NaN /\ y # NaN /\ x > y

angleBetweenThreePoints(measure) ==
  IF measure.degenerate THEN NaN ELSE measure.degrees

\* Finger i: 2 index, 3 middle, 4 ring, 5 pinky.
extensionThreshold(i) ==
  IF i = 2 THEN 140 ELSE IF i = 3 THEN 150 ELSE IF i = 5 THEN 150 ELSE 170

angleThreshold(i) ==
  IF i = 2 THEN 140 ELSE IF i = 3 THEN 145 ELSE IF i = 5 THEN 130 ELSE 150

isExtendedByDistance(i, measure) ==
  greaterThan(measure.ratio, extensionThreshold(i))

isExtendedByAngle(i, measure) ==
  greaterThan(angleBetweenThreePoints(measure), angleThreshold(i))

detectExtendedFingers(geometry) ==
  [i \in 1..5 |->
     IF i = 1 THEN geometry.isThumbExtended
     ELSE isExtendedByDistance(i, geometry.finger[i])
            \/ isExtendedByAngle(i, geometry.finger[i])]

Measures == [ratio : {135, 160, 180, NaN}, degenerate : BOOLEAN, degrees : {135, 160}]

HandGeometries == [isThumbExtended : BOOLEAN, finger : [2..5 -> Measures]]

\* ------------------------------------------------- the detection effect
\* loop describes the props of the hook, detectionLoopRef and the runDetection
\* closures.  Every run of the effect that passes its guard creates a new
\* closure; pc[k] tells where closure k is: "none" (not created, or its
\* pending callback was cancelled), "scheduled" (requestAnimationFrame is
\* pending) or the await its frame is suspended at.  detectionLoopRef is
\* NullHandle, the closure k whose pending callback it names, or FiredHandle
\* (the handle of a callback that has already run: cancelling it does
\* nothing).  A change of props, the cleanup of the old effect and the run of
\* the new one form one step.  late[k] tells that the frame of closure k
\* began while enabled was false, lateEvent that such a frame emitted an
\* event; no action of the program reads them.
MaxLoops == 2
Closures == 1..MaxLoops
NullHandle == 0
FiredHandle == 0 - 1
InFlight == {"detectHands", "estimateHands", "recognizeGesture"}

\* The hook after its first render: the camera is off, the model not loaded,
\* the guard of the effect has failed.
NoLoop ==
  [enabled |-> FALSE, isModelReady |-> FALSE, mounted |-> FALSE,
   detectionLoopRef |-> NullHandle,
   pc |-> [k \in Closures |-> "none"],
   late |-> [k \in Closures |-> FALSE],
   lateEvent |-> FALSE]

\* if (detectionLoopRef.current) { cancelAnimationFrame(...); ... = null; }
cancelAnimationFrame(l) ==
  [l EXCEPT !.pc = [k \in Closures |->
                      IF k = l.detectionLoopRef /\ l.pc[k] = "scheduled"
                        THEN "none" ELSE l.pc[k]],
            !.detectionLoopRef = NullHandle]

\* The function the effect returned, if it returned one.
effectCleanup(l) == IF l.mounted THEN cancelAnimationFrame(l) ELSE l

GuardFails(l) == ~l.enabled \/ ~l.isModelReady

FreeClosures(l) == {k \in Closures : l.pc[k] = "none"}

\* The body of the effect; k is the closure it creates if the guard passes.
runEffect(l, k) ==
  IF GuardFails(l)
    THEN [cancelAnimationFrame(l) EXCEPT !.mounted = FALSE]
    ELSE [l EXCEPT !.mounted = TRUE, !.pc[k] = "scheduled",
                   !.detectionLoopRef = k]

\* A step that processes no frame result.
Quiet(kind) ==
  /\ emitted' = << >>
  /\ step' = [NoStep EXCEPT !.kind = kind]
  /\ UNCHANGED << confidenceHistory, lastDetectedGesture, detectionCount, now,
                  lastFrameEmitted, prevFrameEmitted, streak, run, chain,
                  firstEvent >>

\* A dependency of the effect changed: the cleanup of the old effect, then
\* the effect with the props of l.  The new closure takes the first free
\* place; CanRerun bounds the number of closures alive by MaxLoops.
CanRerun(l) == GuardFails(l) \/ FreeClosures(effectCleanup(l)) # {}

Rerun(l) ==
  LET cleaned == effectCleanup(l)
  IN  IF GuardFails(cleaned)
        THEN runEffect(cleaned, NullHandle)
        ELSE runEffect(cleaned, CHOOSE k \in FreeClosures(cleaned) :
                                  \A j \in FreeClosures(cleaned) : k <= j)

\* setIsModelReady(true)
ModelLoaded ==
  /\ ~loop.isModelReady
  /\ loop' = Rerun([loop EXCEPT !.isModelReady = TRUE])
  /\ Quiet("effect")
  /\ UNCHANGED trial

\* The camera is started or stopped.
SetEnabled ==
  LET props == [loop EXCEPT !.enabled = ~@,
                            !.late = [k \in Closures |-> FALSE],
                            !.lateEvent = FALSE]
  IN  /\ CanRerun(props)
      /\ loop' = Rerun(props)
      /\ Quiet("effect")
      /\ UNCHANGED trial

\* A render passes a new availableGestures array or a new onGestureDetected.
PropsChange ==
  /\ CanRerun(loop)
  /\ loop' = Rerun(loop)
  /\ Quiet("effect")
  /\ UNCHANGED trial

\* detectionLoopRef.current = requestAnimationFrame(runDetection)
rescheduled(l, k) ==
  [l EXCEPT !.pc[k] = "scheduled", !.detectionLoopRef = k, !.late[k] = FALSE]

\* The callback of closure k runs before detectionInterval has passed.
SkipFrame(k) ==
  /\ loop.pc[k] = "scheduled"
  /\ loop' = rescheduled(loop, k)
  /\ Quiet("skip")
  /\ UNCHANGED trial

\* The callback of closure k runs and suspends at await detectHands.
StartFrame(k) ==
  /\ loop.pc[k] = "scheduled"
  /\ loop' = [loop EXCEPT !.pc[k] = "detectHands",
                          !.detectionLoopRef = IF @ = k THEN FiredHandle ELSE @,
                          !.late[k] = ~loop.enabled]
  /\ Quiet("start")
  /\ UNCHANGED trial

HandsDetected(k) ==
  /\ loop.pc[k] = "detectHands"
  /\ loop' = [loop EXCEPT !.pc[k] = "estimateHands"]
  /\ Quiet("await")
  /\ UNCHANGED trial

NoHandsDetected(k) ==
  /\ loop.pc[k] = "detectHands"
  /\ NoHandFrame
  /\ loop' = rescheduled(loop, k)
  /\ UNCHANGED trial

HandsEstimated(k) ==
  /\ loop.pc[k] = "estimateHands"
  /\ loop' = [loop EXCEPT !.pc[k] = "recognizeGesture"]
  /\ Quiet("await")
  /\ UNCHANGED trial

NoHandsEstimated(k) ==
  /\ loop.pc[k] = "estimateHands"
  /\ NoPredictionFrame
  /\ loop' = rescheduled(loop, k)
  /\ UNCHANGED trial

GestureRecognized(k, g, c) ==
  /\ loop.pc[k] = "recognizeGesture"
  /\ HandFrame(g, c)
  /\ loop' = [rescheduled(loop, k) EXCEPT
                !.lateEvent = @ \/ (loop.late[k] /\ emitted' # << >>)]
  /\ UNCHANGED trial

FrameThrows_ResetsTracking(k) ==
  /\ loop.pc[k] \in InFlight
  /\ loop' = rescheduled(loop, k)
  /\ emitted' = << >>
  /\ step' = [NoStep EXCEPT !.kind = "throw"]
  /\ lastDetectedGesture' = NoGesture
  /\ detectionCount' = 0
  /\ UNCHANGED << confidenceHistory, now, lastFrameEmitted, prevFrameEmitted,
                  streak, run, chain, firstEvent >>
  /\ UNCHANGED trial

\* An awaited call of the frame of closure k rejects: the catch block, then
\* the reschedule.
FrameThrows(k) ==
  /\ loop.pc[k] \in InFlight
  /\ loop' = rescheduled(loop, k)
  /\ Quiet("throw")
  /\ UNCHANGED trial

\* ---------------------------------------------------------- specification
trackerVars == << confidenceHistory, lastDetectedGesture, detectionCount, now,
                  emitted, step, lastFrameEmitted, prevFrameEmitted, streak,
                  run, chain, firstEvent >>

\* No function is under trial.
NoTrial == [called |-> FALSE]

TrackerInit ==
  /\ confidenceHistory = EmptyMap
  /\ lastDetectedGesture = NoGesture
  /\ detectionCount = 0
  /\ now = 0
  /\ emitted = << >>
  /\ step = NoStep
  /\ lastFrameEmitted = {}
  /\ prevFrameEmitted = {}
  /\ streak = NoStreak
  /\ run = NoRun
  /\ chain = [g \in Gestures |-> NoChain]
  /\ firstEvent = NoFirst

Init == TrackerInit /\ loop = NoLoop /\ trial = NoTrial

\* One whole frame of a loop that runs alone, from the callback to the
\* reschedule.
FrameNoHand == NoHandFrame /\ UNCHANGED << loop, trial >>
FrameNoPrediction == NoPredictionFrame /\ UNCHANGED << loop, trial >>
FrameHand(g, c) == HandFrame(g, c) /\ UNCHANGED << loop, trial >>

Next ==
  \/ FrameNoHand
  \/ FrameNoPrediction
  \/ \E g \in TwoSigns, c \in MatchConfidences : FrameHand(g, c)
  \/ Sweep
  \/ Tick

Spec == Init /\ [][Next]_vars

NextMean ==
  \/ FrameNoHand
  \/ FrameNoPrediction
  \/ \E g \in OneSign, c \in MatchConfidences : FrameHand(g, c)
  \/ Sweep
  \/ Tick

MeanSpec == Init /\ [][NextMean]_vars

\* Time passes and the interval timer of the sweep keeps firing.
LiveSpec == Init /\ [][Next]_vars /\ WF_vars(Tick) /\ WF_vars(Sweep)

\* ------------------------------------------- the matcher, called once
\* getFingerprintMatches applied to one finger-state vector and one list of
\* candidates: scored is the list after map, matches the list returned.
MatchInit ==
  /\ TrackerInit
  /\ loop = NoLoop
  /\ trial \in [fingers : FingerVectors, gestures : CandidateLists,
                called : {FALSE}, scored : {<< >>}, matches : {<< >>}]

CallMatcher ==
  /\ ~trial.called
  /\ trial' = [trial EXCEPT
                 !.called = TRUE,
                 !.scored = scoreAll(trial.fingers, trial.gestures),
                 !.matches = getFingerprintMatches(trial.fingers, trial.gestures)]
  /\ UNCHANGED << trackerVars, loop >>

MatchNext == CallMatcher

MatchSpec == MatchInit /\ [][MatchNext]_vars

\* One gesture scored against two finger-state vectors X and Y.
PairCandidates ==
  {c \in Candidates : c.complexity = 1 /\ (c.name = "Custom" \/ hasVerifyFn(c.name))}

PairInit ==
  /\ TrackerInit
  /\ loop = NoLoop
  /\ trial \in [gesture : PairCandidates, X : FingerVectors, Y : FingerVectors,
                called : {FALSE}, confidenceX : {0}, confidenceY : {0}]

ScorePair ==
  /\ ~trial.called
  /\ trial' = [trial EXCEPT
                 !.called = TRUE,
                 !.confidenceX = scoreGesture(trial.X, trial.gesture).confidence,
                 !.confidenceY = scoreGesture(trial.Y, trial.gesture).confidence]
  /\ UNCHANGED << trackerVars, loop >>

PairNext == ScorePair

PairSpec == PairInit /\ [][PairNext]_vars

\* recognizeGesture applied to one landmark frame and one list of gestures.
NoOutcome == [result |-> << >>, caught |-> FALSE, rejected |-> FALSE]

GestureLists ==
  {SeededGestures, << Seeded("Custom", "alphabet", 10, FALSE, NoPattern, 12) >>}

RecognizeInit ==
  /\ TrackerInit
  /\ loop = NoLoop
  /\ trial \in [handLandmarks : LandmarkFrames, gestures : GestureLists,
                called : {FALSE}, outcome : {NoOutcome}]

CallRecognize ==
  /\ ~trial.called
  /\ trial' = [trial EXCEPT
                 !.called = TRUE,
                 !.outcome = recognizeLandmarks(trial.handLandmarks, trial.gestures)]
  /\ UNCHANGED << trackerVars, loop >>

RecognizeNext == CallRecognize

RecognizeSpec == RecognizeInit /\ [][RecognizeNext]_vars

\* ------------------------------------------- the detection loop, by steps
\* The frames of the closures interleave at their awaits with each other and
\* with the changes of the props.
\* Every recognised frame shows the one sign with a full match.
LoopConfidences == {10000}

LoopNext ==
  \/ ModelLoaded
  \/ SetEnabled
  \/ PropsChange
  \/ \E k \in Closures : SkipFrame(k)
  \/ \E k \in Closures : StartFrame(k)
  \/ \E k \in Closures : HandsDetected(k)
  \/ \E k \in Closures : NoHandsDetected(k)
  \/ \E k \in Closures : HandsEstimated(k)
  \/ \E k \in Closures : NoHandsEstimated(k)
  \/ \E k \in Closures, g \in OneSign, c \in LoopConfidences :
       GestureRecognized(k, g, c)
  \/ \E k \in Closures : FrameThrows(k)

LoopSpec == Init /\ [][LoopNext]_vars

\* ------------------------------------------- one gesture held, from empty
\* The camera shows one sign from the start.  trial is the observer of the
\* hold: n numbers the processed frames since the tracker was empty, held
\* tells that every one of them was a qualifying match of the sign, each at
\* most the reset window after the one before.  The observer follows the
\* first MaxHoldFrames frames.
MaxHoldFrames == 14

NoHold == [held |-> TRUE, n |-> 0]
HoldBroken == [held |-> FALSE, n |-> 0]

HoldInit == TrackerInit /\ loop = NoLoop /\ trial = NoHold

\* The sign g was last matched at most the reset window ago.
WithinWindow(g) ==
  /\ MapHas(confidenceHistory, g)
  /\ now - confidenceHistory[g].lastTimestamp <= ResetWindow

HoldFrame(g, c) ==
  /\ HandFrame(g, c)
  /\ trial' = IF /\ trial.held
                 /\ trial.n < MaxHoldFrames
                 /\ step'.kind = "match"
                 /\ (trial.n = 0 \/ WithinWindow(g))
                THEN [trial EXCEPT !.n = @ + 1]
                ELSE HoldBroken
  /\ UNCHANGED loop

HoldNoHand ==
  /\ NoHandFrame
  /\ trial' = HoldBroken
  /\ UNCHANGED loop

HoldNext ==
  \/ \E g \in OneSign, c \in MatchConfidences : HoldFrame(g, c)
  \/ HoldNoHand
  \/ Sweep
  \/ Tick

HoldSpec == HoldInit /\ [][HoldNext]_vars

\* ------------------------------------------- dropouts of the hand
\* trial is the observer of dropouts.  pending[g] is the count g had at the
\* no-hand frame that began the dropout and the time since the last match of
\* g (NoPending if g had no entry or has been matched since); afterEvent names the gesture whose event was emitted
\* by the frame right before a no-hand frame that is the latest processed
\* frame.  check describes a frame that was the first qualifying match of
\* its gesture after a dropout: the count before the dropout and after the
\* frame's increment, whether the frame came within the reset window, and
\* whether it came right after an event and one no-hand frame.
NoCount == 0 - 1
NoPending == [count |-> NoCount, age |-> 0]
NoCheck == [gesture |-> NoGesture, before |-> 0, after |-> 0,
            within |-> FALSE, afterEvent |-> FALSE]
NoDropout == [pending |-> [g \in Gestures |-> NoPending],
              afterEvent |-> NoGesture, check |-> NoCheck]

DropoutInit == TrackerInit /\ loop = NoLoop /\ trial = NoDropout

\* The count of g and the time since its last match, as a no-hand frame
\* finds them.
PendingOf(g) ==
  IF MapHas(confidenceHistory, g)
    THEN [count |-> confidenceHistory[g].count,
          age |-> Min(now - confidenceHistory[g].lastTimestamp, AgeCap)]
    ELSE NoPending

DropoutNoHand ==
  /\ NoHandFrame
  /\ trial' = [pending |-> [g \in Gestures |->
                              IF trial.pending[g] # NoPending
                                THEN trial.pending[g] ELSE PendingOf(g)],
               afterEvent |-> IF step.kind = "match" /\ Len(emitted) = 1
                                THEN emitted[1].gesture ELSE NoGesture,
               check |-> NoCheck]
  /\ UNCHANGED loop

DropoutNoPrediction ==
  /\ NoPredictionFrame
  /\ trial' = [trial EXCEPT !.afterEvent = NoGesture, !.check = NoCheck]
  /\ UNCHANGED loop

DropoutFrame(g, c) ==
  /\ HandFrame(g, c)
  /\ trial' = IF step'.kind = "match" /\ trial.pending[g] # NoPending
                THEN [pending |-> [trial.pending EXCEPT ![g] = NoPending],
                      afterEvent |-> NoGesture,
                      check |-> [gesture |-> g,
                                 before |-> trial.pending[g].count,
                                 after |-> step'.count,
                                 within |-> trial.pending[g].age <= ResetWindow,
                                 afterEvent |-> trial.afterEvent = g]]
                ELSE [trial EXCEPT !.afterEvent = NoGesture, !.check = NoCheck]
  /\ UNCHANGED loop

DropoutTick ==
  /\ Advance
  /\ trial' = [trial EXCEPT
                 !.pending = [g \in Gestures |->
                                IF trial.pending[g] = NoPending THEN NoPending
                                ELSE [trial.pending[g] EXCEPT !.age = Older(@)]]]
  /\ UNCHANGED loop

DropoutNext ==
  \/ DropoutNoHand
  \/ DropoutNoPrediction
  \/ \E g \in OneSign, c \in MatchConfidences : DropoutFrame(g, c)
  \/ Sweep
  \/ DropoutTick

DropoutSpec == DropoutInit /\ [][DropoutNext]_vars

\* ------------------------------------------- the tracker without the sweep
\* The tracker update of one frame as a function of the tracker refs: what
\* TrackResult and HandFrame do to confidenceHistory, lastDetectedGesture,
\* detectionCount and emitted.
Tracked(tracker, result, t) ==
  LET gestureName == result.gesture.name
      history == RecordMatch(
                   ResetIfStale(GetHistory(tracker.confidenceHistory, gestureName, t), t),
                   result.confidence, t)
  IN  IF ~IsQualifying(result.confidence)
        THEN [tracker EXCEPT !.emitted = << >>]
      ELSE IF ~ReachedRequired(history)
        THEN [tracker EXCEPT
                !.confidenceHistory = MapSet(@, gestureName, history),
                !.emitted = << >>]
      ELSE IF CooldownPassed(tracker.lastDetectedGesture, tracker.detectionCount,
                             gestureName)
        THEN [tracker EXCEPT
                !.lastDetectedGesture = gestureName,
                !.detectionCount = 0,
                !.confidenceHistory = MapSet(@, gestureName, HistoryAfterEmit(history, t)),
                !.emitted = onGestureDetected(gestureName,
                              avgConfidence(history.confidences), t)]
        ELSE [tracker EXCEPT
                !.detectionCount = @ + 1,
                !.confidenceHistory = MapSet(@, gestureName, history),
                !.emitted = << >>]

TrackedHand(tracker, g, matchConfidence, t) ==
  LET recognitionResult == recognizeGesture(availableGestures[g], matchConfidence)
  IN  IF recognitionResult = << >>
        THEN [tracker EXCEPT !.emitted = << >>]
        ELSE Tracked(tracker, recognitionResult[1], t)

TrackedNoHand(tracker) ==
  [tracker EXCEPT !.lastDetectedGesture = NoGesture, !.detectionCount = 0,
                  !.emitted = << >>]

\* trial is a second tracker that is fed the same frames at the same times
\* and has no cleanupInterval; pc tells at which await the frame of the one
\* runDetection closure is suspended ("idle" between frames).  The sweep of
\* the first tracker may come at every pc.
NoShadow ==
  [pc |-> "idle", confidenceHistory |-> EmptyMap,
   lastDetectedGesture |-> NoGesture, detectionCount |-> 0, emitted |-> << >>]

ShadowInit == TrackerInit /\ loop = NoLoop /\ trial = NoShadow

ShadowStage(from, to, kind) ==
  /\ trial.pc = from
  /\ trial' = [trial EXCEPT !.pc = to, !.emitted = << >>]
  /\ Quiet(kind)
  /\ UNCHANGED loop

ShadowStart == ShadowStage("idle", "detectHands", "start")
ShadowHandsDetected == ShadowStage("detectHands", "estimateHands", "await")
ShadowHandsEstimated == ShadowStage("estimateHands", "recognizeGesture", "await")

ShadowNoHand ==
  /\ trial.pc = "detectHands"
  /\ NoHandFrame
  /\ trial' = [TrackedNoHand(trial) EXCEPT !.pc = "idle"]
  /\ UNCHANGED loop

ShadowNoPrediction ==
  /\ trial.pc = "estimateHands"
  /\ NoPredictionFrame
  /\ trial' = [trial EXCEPT !.pc = "idle", !.emitted = << >>]
  /\ UNCHANGED loop

ShadowFrame(g, c) ==
  /\ trial.pc = "recognizeGesture"
  /\ HandFrame(g, c)
  /\ trial' = [TrackedHand(trial, g, c, now) EXCEPT !.pc = "idle"]
  /\ UNCHANGED loop

ShadowTick ==
  /\ Advance
  /\ trial' = IF now + TickMs <= MaxTime THEN trial
              ELSE [trial EXCEPT
                      !.confidenceHistory =
                        [k \in DOMAIN @ |->
                           [@[k] EXCEPT !.lastTimestamp = ShiftBack(@)]]]
  /\ UNCHANGED loop

ShadowNext ==
  \/ ShadowStart
  \/ ShadowHandsDetected
  \/ ShadowHandsEstimated
  \/ ShadowNoHand
  \/ ShadowNoPrediction
  \/ \E g \in TwoSigns, c \in MatchConfidences : ShadowFrame(g, c)
  \/ Sweep
  \/ ShadowTick

ShadowSpec == ShadowInit /\ [][ShadowNext]_vars

\* ------------------------------------------- camera sessions
\* The camera is started and stopped; a stopped loop processes no frame.
\* Stopping and starting run the cleanup and the body of the detection
\* effect, which touch detectionLoopRef only: the tracker refs belong to the
\* hook and live as long as the component.  trial is the observer of the
\* session: restarted tells that an earlier session has ended, n numbers the
\* processed frames of the session, held tells that each of them was a
\* qualifying match of one sign, each at most the reset window after the
\* one before.  The observer follows the first REQUIRED_MATCHES frames.
NoSession == [enabled |-> FALSE, restarted |-> FALSE, held |-> FALSE, n |-> 0]

SessionInit == TrackerInit /\ loop = NoLoop /\ trial = NoSession

SessionStart ==
  /\ ~trial.enabled
  /\ trial' = [trial EXCEPT !.enabled = TRUE, !.held = TRUE, !.n = 0]
  /\ Quiet("effect")
  /\ UNCHANGED loop

SessionStop ==
  /\ trial.enabled
  /\ trial' = [enabled |-> FALSE, restarted |-> TRUE, held |-> FALSE, n |-> 0]
  /\ Quiet("effect")
  /\ UNCHANGED loop

SessionFrame(g, c) ==
  /\ trial.enabled
  /\ HandFrame(g, c)
  /\ trial' = IF /\ trial.held
                 /\ trial.n < REQUIRED_MATCHES
                 /\ step'.kind = "match"
                 /\ (trial.n = 0 \/ WithinWindow(g))
                THEN [trial EXCEPT !.n = @ + 1]
                ELSE [trial EXCEPT !.held = FALSE, !.n = 0]
  /\ UNCHANGED loop

SessionNoHand ==
  /\ trial.enabled
  /\ NoHandFrame
  /\ trial' = [trial EXCEPT !.held = FALSE, !.n = 0]
  /\ UNCHANGED loop

SessionNext ==
  \/ SessionStart
  \/ SessionStop
  \/ \E g \in OneSign, c \in MatchConfidences : SessionFrame(g, c)
  \/ SessionNoHand
  \/ Sweep
  \/ Tick

SessionSpec == SessionInit /\ [][SessionNext]_vars

\* ------------------------------------------- 'U' against 'V'
\* recognizeGesture applied to a frame of 21 points and a list that holds
\* 'U' and 'V', and any of 'H', 'K' and 'R', in every order: as the server
\* seeds them (class numbers by position in the alphabet) or without class.
Perms(S) ==
  {f \in [1..Cardinality(S) -> S] : \A i, j \in DOMAIN f : f[i] = f[j] => i = j}

SeededClass(name) ==
  CASE name = "H" -> 8 [] name = "K" -> 11 [] name = "R" -> 18
    [] name = "U" -> 21 [] name = "V" -> 22

Letter(name, classed) ==
  Seeded(name, "alphabet", 2, FALSE, NoPattern,
         IF classed THEN SeededClass(name) ELSE Undefined)

UVLists ==
  UNION {{[i \in DOMAIN f |-> Letter(f[i], classed)] :
            f \in Perms({"U", "V"} \cup others), classed \in BOOLEAN} :
         others \in SUBSET {"H", "K", "R"}}

FullFrames == {h \in LandmarkFrames : h.points = 21}

SelectInit ==
  /\ TrackerInit
  /\ loop = NoLoop
  /\ trial \in [handLandmarks : FullFrames, gestures : UVLists,
                called : {FALSE}, selected : {<< >>}, outcome : {NoOutcome}]

CallSelect ==
  /\ ~trial.called
  /\ trial' = [trial EXCEPT
                 !.called = TRUE,
                 !.selected = selectedMatch(trial.handLandmarks, trial.gestures),
                 !.outcome = recognizeLandmarks(trial.handLandmarks, trial.gestures)]
  /\ UNCHANGED << trackerVars, loop >>

SelectNext == CallSelect

SelectSpec == SelectInit /\ [][SelectNext]_vars

\* ------------------------------------------- one frame, from its geometry
\* detectExtendedFingers applied to the measures of one hand of 21 points,
\* and recognizeGesture applied to the frame.
DetectGestures ==
  << Seeded("A", "alphabet", 1, FALSE, << TRUE, FALSE, FALSE, FALSE, FALSE >>, 1),
     Seeded("B", "alphabet", 1, FALSE, << FALSE, TRUE, TRUE, TRUE, TRUE >>, 2),
     Seeded("E", "alphabet", 2, FALSE, << FALSE, FALSE, FALSE, FALSE, FALSE >>, 5) >>

FrameOf(fingers) ==
  [points |-> 21, fingers |-> fingers, thumbAside |-> FALSE, spread |-> FALSE,
   facingCamera |-> FALSE]

DetectInit ==
  /\ TrackerInit
  /\ loop = NoLoop
  /\ trial \in [geometry : HandGeometries, called : {FALSE},
                fingersExtended : {<< >>}, outcome : {NoOutcome}]

CallDetect ==
  /\ ~trial.called
  /\ trial' = [trial EXCEPT
                 !.called = TRUE,
                 !.fingersExtended = detectExtendedFingers(trial.geometry),
                 !.outcome = recognizeLandmarks(
                               FrameOf(detectExtendedFingers(trial.geometry)),
                               DetectGestures)]
  /\ UNCHANGED << trackerVars, loop >>

DetectNext == CallDetect

DetectSpec == DetectInit /\ [][DetectNext]_vars

\* ------------------------------------------- gestures of class 100 and up
\* recognizeGesture applied to a frame of 21 points and a list that holds one
\* gesture with the msaslClass of a seeded phrase or word (100..104,
\* 200..204, 300..304), alone or next to the seeded 'A'.
PhraseClasses == {100, 104, 300}

ClassedGestures ==
  [name : {"Hello", "Yes", "Custom", "5"}, type : Types,
   complexity : Complexities, hasMotion : BOOLEAN,
   fingerPattern : {NoPattern, AllExtended}, msaslClass : PhraseClasses]

ClassedLists ==
  UNION {{<< g >>, << g, SeededGestures[1] >>, << SeededGestures[1], g >>} :
         g \in ClassedGestures}

ClassedFrames == {h \in FullFrames : ~h.spread}

ClassedInit ==
  /\ TrackerInit
  /\ loop = NoLoop
  /\ trial \in [handLandmarks : ClassedFrames, gestures : ClassedLists,
                called : {FALSE}, selected : {<< >>}, outcome : {NoOutcome}]

CallClassed ==
  /\ ~trial.called
  /\ trial' = [trial EXCEPT
                 !.called = TRUE,
                 !.selected = selectedMatch(trial.handLandmarks, trial.gestures),
                 !.outcome = recognizeLandmarks(trial.handLandmarks, trial.gestures)]
  /\ UNCHANGED << trackerVars, loop >>

ClassedNext == CallClassed

ClassedSpec == ClassedInit /\ [][ClassedNext]_vars

\* ================================================================ claims

\* What a finished run must have produced: nothing on frames 1 .. last-1,
\* one event on frame `last`.
RunEmitsOn(last) ==
  /\ run.n < last => run.events = 0
  /\ run.n = last => run.events = 1

\* The event of the present frame reports the mean of the fed confidences.
RunReportsMean ==
  /\ Len(emitted) = 1
  /\ emitted[1].gesture = run.gesture
  /\ emitted[1].confidence.num * run.n = run.fedSum * emitted[1].confidence.den

\* C1 (as stated): from any reachable state in which G has no history entry,
\* REQUIRED_MATCHES consecutive qualifying frames for G, each less than the
\* reset window after the previous one, emit exactly one event for G, on the
\* last of these frames, and its confidence is the mean of the confidences fed.
C1_AnyStart ==
  run.shape = "tight" =>
    /\ RunEmitsOn(REQUIRED_MATCHES)
    /\ (run.n = REQUIRED_MATCHES /\ step.kind = "match") => RunReportsMean

\* C1 (amended): the same, for a start in which G is not under cooldown (the
\* last detected gesture is not G, or the cooldown counter exceeds 3).
C1_NotHeld ==
  (run.shape = "tight" /\ ~run.held) =>
    /\ RunEmitsOn(REQUIRED_MATCHES)
    /\ (run.n = REQUIRED_MATCHES /\ step.kind = "match") => RunReportsMean

\* Four frames with two different confidences were fed and the fourth emitted.
C1_Witness ==
  /\ run.shape = "tight" /\ ~run.held /\ run.n = REQUIRED_MATCHES
  /\ step.kind = "match" /\ Len(emitted) = 1
  /\ run.fedSum # REQUIRED_MATCHES * step.confidence

\* C2: an event for G is emitted only by a frame that is itself a qualifying
\* match for G (confidence above 0.8) and brings G's count, after the
\* increment, to REQUIRED_MATCHES or more.
C2_EmitOnlyOnQualifyingMatch ==
  \A i \in DOMAIN emitted :
    /\ step.kind = "match"
    /\ step.gesture = emitted[i].gesture
    /\ step.confidence > QualifyThreshold
    /\ step.count >= REQUIRED_MATCHES

\* An event was emitted after the cooldown had held it back.
C2_Witness ==
  /\ emitted # << >>
  /\ step.count > REQUIRED_MATCHES

\* C3 (as stated): the first event for G after G's history entry is created
\* is emitted only when the REQUIRED_MATCHES most recent processed frames all
\* were qualifying matches for G.
C3_ConsecutiveFrames ==
  firstEvent # NoFirst => firstEvent.streak >= REQUIRED_MATCHES

\* C3 (amended): the first event for G after G's history entry is created is
\* emitted only when G has been matched REQUIRED_MATCHES times or more since
\* then, each match at most the reset window after the previous match of G;
\* the processed frames in between need not be matches of G.
C3_MatchesWithinWindow ==
  firstEvent # NoFirst => firstEvent.chainN >= REQUIRED_MATCHES

\* A first event came although an earlier frame of the last four was no
\* match of its gesture.
C3_Witness ==
  /\ firstEvent # NoFirst
  /\ firstEvent.streak < REQUIRED_MATCHES
  /\ firstEvent.chainN = REQUIRED_MATCHES

\* The entry of the matched gesture restarted: count 1, only the new sample.
RestartedEntry ==
  /\ step.count = 1 /\ step.listLen = 1 /\ step.listSum = step.confidence
  /\ MapHas(confidenceHistory, step.gesture)
  /\ confidenceHistory[step.gesture].count = 1
  /\ confidenceHistory[step.gesture].confidences = << step.confidence >>

\* C4 (as stated): a qualifying match for G arriving more than the reset
\* window after G's last-seen timestamp leaves G with count 1 and a list
\* holding only the new confidence; and qualifying frames for G with a gap
\* above the window between frames 1 and 2 emit the first event on frame 5.
C4_LateSecondFrame ==
  /\ (step.kind = "match" /\ step.late) => RestartedEntry
  /\ run.shape = "late2" => RunEmitsOn(REQUIRED_MATCHES + 1)

\* C4 (amended): the same, the event on frame 5 being claimed only for a
\* start in which G is not under cooldown; no event comes before frame 5.
C4_LateSecondFrameNotHeld ==
  /\ (step.kind = "match" /\ step.late) => RestartedEntry
  /\ run.shape = "late2" =>
       /\ run.n <= REQUIRED_MATCHES => run.events = 0
       /\ (run.n = REQUIRED_MATCHES + 1 /\ ~run.held) => run.events = 1

\* The fifth frame of such a sequence emitted the first event.
C4_Witness ==
  /\ run.shape = "late2" /\ run.n = REQUIRED_MATCHES + 1 /\ ~run.held
  /\ step.kind = "match" /\ emitted # << >>

\* C5: no two events carrying the same gesture name are emitted on two
\* consecutive processed frames.
C5_NoFlooding == lastFrameEmitted \cap prevFrameEmitted = {}

\* The frame right after an event matched the same gesture with the required
\* count reached, and emitted nothing.
C5_Witness ==
  /\ prevFrameEmitted # {}
  /\ step.kind = "match" /\ step.gesture \in prevFrameEmitted
  /\ step.count >= REQUIRED_MATCHES
  /\ lastFrameEmitted = {}

\* C6: every processed frame calls onGestureDetected at most once.
C6_AtMostOneEvent == Len(emitted) <= 1

\* A re-confirmation after the cooldown emitted its single event.
C6_Witness ==
  /\ Len(emitted) = 1
  /\ step.count = 2 * REQUIRED_MATCHES

\* C7: a frame without a hand emits nothing, sets the last detected gesture
\* to none and the cooldown counter to 0, and leaves every history entry as
\* it was.
C7_NoHandFrame ==
  [][step'.kind = "nohand" =>
       /\ emitted' = << >>
       /\ lastDetectedGesture' = NoGesture
       /\ detectionCount' = 0
       /\ confidenceHistory' = confidenceHistory]_vars

\* A no-hand frame came while a gesture was held and counted.
C7_Witness ==
  /\ step.kind = "nohand"
  /\ \E g \in DOMAIN confidenceHistory :
       confidenceHistory[g].count >= REQUIRED_MATCHES

\* C8: a tick of the sweep removes exactly the entries last seen more than
\* the inactivity window ago, and leaves every other entry as it was.
C8_SweepDeletesExactlyStale ==
  [][step'.kind = "sweep" =>
       /\ DOMAIN confidenceHistory' \subseteq DOMAIN confidenceHistory
       /\ \A key \in DOMAIN confidenceHistory :
            IF now - confidenceHistory[key].lastTimestamp > expiration
              THEN key \notin DOMAIN confidenceHistory'
              ELSE /\ key \in DOMAIN confidenceHistory'
                   /\ confidenceHistory'[key] = confidenceHistory[key]]_vars

\* A sweep removed the entry of the last detected gesture and kept another.
C8_Witness ==
  /\ step.kind = "sweep"
  /\ lastDetectedGesture # NoGesture
  /\ ~MapHas(confidenceHistory, lastDetectedGesture)
  /\ DOMAIN confidenceHistory # {}

\* C9: if from some point on no qualifying frame for G arrives, G's history
\* entry is eventually absent from the map, and an absent entry appears
\* again only by a qualifying frame for G.
C9_Expiration ==
  /\ \A g \in TwoSigns :
       <>[](~(step.kind = "match" /\ step.gesture = g))
          => <>[](~MapHas(confidenceHistory, g))
  /\ [][\A g \in TwoSigns :
          (~MapHas(confidenceHistory, g) /\ MapHas(confidenceHistory', g))
             => (step'.kind = "match" /\ step'.gesture = g)]_vars

\* The entry of a gesture that had been emitted is gone from the map.
C9_Witness ==
  \E g \in TwoSigns :
    /\ lastDetectedGesture = g
    /\ ~MapHas(confidenceHistory, g)

\* C10: every event reports the mean of the gesture's confidence list as it
\* is when the event is emitted, and that mean is above 0.8 and at most 1.
C10_ReportedMean ==
  \A i \in DOMAIN emitted :
    LET reported == emitted[i].confidence
    IN  /\ reported.den > 0
        /\ reported.num * step.listLen = step.listSum * reported.den
        /\ reported.num > QualifyThreshold * reported.den
        /\ reported.num <= ConfScale * reported.den

\* An event reported the mean of a list of eight samples that are not all
\* equal.
C10_Witness ==
  /\ Len(emitted) = 1
  /\ step.listLen = 2 * REQUIRED_MATCHES
  /\ step.listSum # step.listLen * step.confidence

\* ------------------------------------------------ claims on the matcher
\* The floor as the claims state it: 0.85 for an alphabet sign, 0.80 for a
\* phrase and for any other type, each lowered by complexity / 100.
StatedFloor(gesture) ==
  (IF gesture.type = "alphabet" THEN (85 * MatchScale) \div 100
   ELSE (80 * MatchScale) \div 100)
  - (IF gesture.complexity # Undefined
       THEN gesture.complexity * (MatchScale \div 100) ELSE 0)

Occurrences(list, x) == Cardinality({i \in DOMAIN list : list[i] = x})

Returned(gesture) == \E j \in DOMAIN trial.matches : trial.matches[j].gesture = gesture

Overlap(pattern, fingers) == Cardinality({i \in 1..5 : pattern[i] = fingers[i]})

ExtendedIn(pattern) == Cardinality({i \in 1..5 : pattern[i]})

\* C14: getFingerprintMatches returns the candidates in non-increasing order
\* of confidence; the result holds exactly the candidates whose confidence
\* strictly exceeds their floor (0.85 alphabet, 0.80 phrase and other types,
\* each less complexity / 100); for equal complexity an alphabet sign faces
\* a stricter minimum than a phrase.
C14_SortedAboveFloor ==
  trial.called =>
    /\ Len(trial.scored) = Len(trial.gestures)
    /\ \A i \in DOMAIN trial.scored : trial.scored[i].gesture = trial.gestures[i]
    /\ \A j \in 1..(Len(trial.matches) - 1) :
         trial.matches[j].confidence >= trial.matches[j + 1].confidence
    /\ \A j \in DOMAIN trial.matches :
         \E i \in DOMAIN trial.scored : trial.scored[i] = trial.matches[j]
    /\ \A i \in DOMAIN trial.scored :
         Occurrences(trial.matches, trial.scored[i]) =
           IF trial.scored[i].confidence > StatedFloor(trial.scored[i].gesture)
             THEN Occurrences(trial.scored, trial.scored[i])
             ELSE 0
    /\ \A i, j \in DOMAIN trial.scored :
         ( /\ trial.gestures[i].type = "alphabet"
           /\ trial.gestures[j].type = "phrase"
           /\ trial.gestures[i].complexity = trial.gestures[j].complexity
           /\ trial.scored[i].confidence <= trial.scored[j].confidence
           /\ Returned(trial.gestures[i]) )
         => Returned(trial.gestures[j])

\* Two candidates were returned in the order opposite to the one they were
\* given in, an alphabet sign behind a phrase of the same complexity.
C14_Witness ==
  /\ trial.called
  /\ Len(trial.gestures) = 2 /\ Len(trial.matches) = 2
  /\ trial.matches[1].gesture = trial.gestures[2]
  /\ trial.matches[2].gesture = trial.gestures[1]
  /\ trial.matches[1].confidence > trial.matches[2].confidence
  /\ trial.matches[2].gesture.type = "alphabet"
  /\ trial.matches[1].gesture.type = "phrase"
  /\ trial.matches[1].gesture.complexity = trial.matches[2].gesture.complexity

MissesOne(pattern, fingers, i) ==
  /\ pattern[i] /\ ~fingers[i]
  /\ \A k \in (1..5) \ {i} : fingers[k] = pattern[k]

HasExtra(pattern, fingers, i) ==
  /\ ~pattern[i] /\ fingers[i]
  /\ \A k \in (1..5) \ {i} : fingers[k] = pattern[k]

VerifyFails(gesture, fingers) ==
  /\ gesture.name \in PatternNames
  /\ hasVerifyFn(gesture.name)
  /\ ~verifyFn(gesture.name, fingers)

\* C16: a gesture whose verification predicate fails on the finger-state
\* vector has confidence 0.1 whatever the overlap, the type and the
\* hasMotion flag, and with a complexity of at most 5 (or none) it is absent
\* from the matcher's output.
C16_FailedVerification ==
  trial.called =>
    \A i \in DOMAIN trial.gestures :
      VerifyFails(trial.gestures[i], trial.fingers) =>
        /\ trial.scored[i].confidence = MatchScale \div 10
        /\ trial.gestures[i].complexity <= 5 => ~Returned(trial.gestures[i])

\* The predicate of a phrase with motion failed on a vector that agrees with
\* its pattern on four fingers.
C16_Witness ==
  /\ trial.called
  /\ \E i \in DOMAIN trial.gestures :
       /\ VerifyFails(trial.gestures[i], trial.fingers)
       /\ trial.gestures[i].type = "phrase" /\ trial.gestures[i].hasMotion
       /\ Overlap(fingerPatternOf(trial.gestures[i].name), trial.fingers) = 4
       /\ trial.scored[i].confidence = MatchScale \div 10

\* C17: for the flat open hand, every candidate whose expected pattern is
\* all-extended exceeds its floor, whatever its type and hasMotion flag,
\* and is present in the matcher's output.
C17_OpenHandExceedsFloor ==
  (trial.called /\ trial.fingers = AllExtended) =>
    \A i \in DOMAIN trial.gestures :
      patternInfo(trial.gestures[i]).fingerPattern = AllExtended =>
        /\ trial.scored[i].confidence > StatedFloor(trial.gestures[i])
        /\ Returned(trial.gestures[i])

\* C18: with a complexity of at most 5 (or none) a candidate is in the
\* output only if its pattern equals the vector on all five fingers; one
\* mismatched finger puts it below its floor; the closed fist is below the
\* floor of every pattern that requires two or more extended fingers.
C18_OnlyExactPatterns ==
  trial.called =>
    /\ \A j \in DOMAIN trial.matches :
         trial.matches[j].gesture.complexity <= 5 =>
           patternInfo(trial.matches[j].gesture).fingerPattern = trial.fingers
    /\ \A i \in DOMAIN trial.gestures :
         LET pattern == patternInfo(trial.gestures[i]).fingerPattern
         IN  trial.gestures[i].complexity <= 5 =>
               /\ Overlap(pattern, trial.fingers) < 5 =>
                    trial.scored[i].confidence < StatedFloor(trial.gestures[i])
               /\ (trial.fingers = ClosedFist /\ ExtendedIn(pattern) >= 2) =>
                    trial.scored[i].confidence < StatedFloor(trial.gestures[i])

\* A word of complexity 5 scored 0.712, the highest score of a vector with
\* one mismatched finger, and was not returned.
C18_Witness ==
  /\ trial.called
  /\ \E i \in DOMAIN trial.gestures :
       /\ trial.gestures[i].type = "word" /\ trial.gestures[i].complexity = 5
       /\ Overlap(patternInfo(trial.gestures[i]).fingerPattern, trial.fingers) = 4
       /\ trial.scored[i].confidence = (712 * MatchScale) \div 1000
       /\ ~Returned(trial.gestures[i])

\* C19: recognizeGesture yields null, without throwing to its caller, for
\* every landmark frame that does not contain exactly 21 points, whether it
\* has fewer or more.
C19_RejectsOtherLengths ==
  (trial.called /\ trial.handLandmarks.points # 21) =>
    /\ trial.outcome.result = << >>
    /\ ~trial.outcome.rejected

\* The confidence of a gesture without verification predicate for a pattern.
ScoreAgainst(pattern, fingers, gesture) ==
  typeAdjusted(gesture, baseConfidence(weightedScore(fingers, pattern)))

ClosuresInFlight == {k \in Closures : loop.pc[k] \in InFlight}

\* C11: at most one closure is suspended inside a frame (between the start
\* of its callback and its reschedule) at any time, also when the effect was
\* torn down and run again while a frame was awaiting.
C11_OneFrameInProgress == Cardinality(ClosuresInFlight) <= 1

\* C12: while enabled is false (the cleanup has run), no callback is
\* scheduled, no frame in progress has begun after enabled became false, and
\* no such frame has emitted an event.
C12_StopsWhenDisabled ==
  ~loop.enabled =>
    /\ \A k \in Closures : loop.pc[k] # "scheduled"
    /\ \A k \in Closures : ~loop.late[k]
    /\ ~loop.lateEvent

FedList(g, confidence) ==
  Append(IF MapHas(confidenceHistory, g)
           THEN confidenceHistory[g].confidences ELSE << >>,
         confidence)

\* C21: a step that emits an event for G leaves G's history entry with count
\* REQUIRED_MATCHES - 1 (never 0), with exactly the last three confidence
\* samples (the frame's own sample last) and the current time as last-seen
\* timestamp, the last detected gesture G and the cooldown counter 0.
C21_StateAfterEmission ==
  [][emitted' # << >> =>
       LET g == emitted'[1].gesture
           fed == FedList(g, step'.confidence)
       IN  /\ MapHas(confidenceHistory', g)
           /\ confidenceHistory'[g].count = REQUIRED_MATCHES - 1
           /\ confidenceHistory'[g].count # 0
           /\ Len(fed) >= KeepSamples
           /\ confidenceHistory'[g].confidences =
                SubSeq(fed, Len(fed) - KeepSamples + 1, Len(fed))
           /\ confidenceHistory'[g].lastTimestamp = now'
           /\ lastDetectedGesture' = g
           /\ detectionCount' = 0]_vars

\* An event came from a list of eight samples whose first three differ from
\* its last three.
C21_Witness ==
  /\ Len(emitted) = 1
  /\ step.listLen = 2 * REQUIRED_MATCHES
  /\ MapHas(confidenceHistory, step.gesture)
  /\ confidenceHistory[step.gesture].count = REQUIRED_MATCHES - 1
  /\ 3 * step.listSum # step.listLen * SeqSum(confidenceHistory[step.gesture].confidences)

\* The frames of a hold on which an event is due: frame REQUIRED_MATCHES and
\* every fifth frame after it.
EventDueOn(n) ==
  n >= REQUIRED_MATCHES /\ (n - REQUIRED_MATCHES) % 5 = 0

\* C22: while one gesture is held from an empty tracker, frame n emits an
\* event exactly if n is 4, 9, 14, ...; on the frames before the fourth the
\* count is below the required value, on the four frames before each
\* re-emission it is at or above it and the cooldown holds the event back.
C22_HeldSignPeriod ==
  (trial.held /\ trial.n > 0 /\ step.kind = "match") =>
    /\ Len(emitted) = (IF EventDueOn(trial.n) THEN 1 ELSE 0)
    /\ \A i \in DOMAIN emitted : emitted[i].gesture = step.gesture
    /\ trial.n < REQUIRED_MATCHES => step.count < REQUIRED_MATCHES
    /\ trial.n >= REQUIRED_MATCHES => step.count >= REQUIRED_MATCHES

\* The third event of a hold, on frame 14.
C22_Witness ==
  /\ trial.held /\ trial.n = 14
  /\ step.kind = "match" /\ Len(emitted) = 1

\* C23: the first qualifying match of G after a dropout (one or more no-hand
\* frames), arriving within the reset window, brings G's count to the count
\* G had at the dropout plus one; if the dropout was a single no-hand frame
\* right after an event for G, that match emits a new event for G.
C23_DropoutKeepsCount ==
  (step.kind = "match" /\ trial.check.gesture # NoGesture /\ trial.check.within) =>
    /\ trial.check.after = trial.check.before + 1
    /\ trial.check.afterEvent =>
         /\ Len(emitted) = 1
         /\ emitted[1].gesture = trial.check.gesture

\* The frame after an event and one no-hand frame emitted again.
C23_Witness ==
  /\ step.kind = "match"
  /\ trial.check.gesture = step.gesture
  /\ trial.check.within /\ trial.check.afterEvent
  /\ trial.check.before = REQUIRED_MATCHES - 1
  /\ Len(emitted) = 1

FrameKinds == {"match", "lowconf", "noresult", "nohand"}

\* C24: fed the same frames at the same times, the tracker with the sweep
\* (ticks of the sweep coming between frames and at every await of a frame)
\* and the tracker without it emit the same events on every frame, agree on
\* the last detected gesture and the cooldown counter, and agree on every
\* entry the sweep has left: the entry a frame writes is the one the tracker
\* without the sweep writes, so no update is lost and no deleted entry comes
\* back with its old count.
C24_SweepChangesNoEvent ==
  /\ step.kind \in FrameKinds => emitted = trial.emitted
  /\ lastDetectedGesture = trial.lastDetectedGesture
  /\ detectionCount = trial.detectionCount
  /\ \A g \in DOMAIN confidenceHistory :
       /\ MapHas(trial.confidenceHistory, g)
       /\ confidenceHistory[g] = trial.confidenceHistory[g]
  /\ step.kind = "match" => MapHas(confidenceHistory, step.gesture)

\* An event was emitted for one gesture while the sweep had removed the
\* entry of the other, which the tracker without the sweep still holds.
C24_Witness ==
  /\ step.kind = "match" /\ Len(emitted) = 1
  /\ \E g \in DOMAIN trial.confidenceHistory :
       /\ ~MapHas(confidenceHistory, g)
       /\ trial.confidenceHistory[g].count >= REQUIRED_MATCHES - 1

\* The frames of a session so far were n qualifying matches of one sign.
HeldFromStart(n) ==
  trial.enabled /\ trial.held /\ trial.n = n /\ step.kind = "match"

\* C25: in a session that follows a stop and a start of the camera, a sign
\* held from the first frame of the session emits its first event on the
\* REQUIRED_MATCHES-th frame of the session and on no frame before it, as
\* in the first session.
C25_FreshAfterRestart ==
  \A n \in 1..REQUIRED_MATCHES :
    (trial.restarted /\ HeldFromStart(n)) =>
      Len(emitted) = (IF n = REQUIRED_MATCHES THEN 1 ELSE 0)

\* The same in the session that starts with the empty tracker.
FirstSessionFresh ==
  \A n \in 1..REQUIRED_MATCHES :
    (~trial.restarted /\ HeldFromStart(n)) =>
      Len(emitted) = (IF n = REQUIRED_MATCHES THEN 1 ELSE 0)

\* ------------------------------------------------ claims on recognizeGesture, continued
\* Index and middle finger extended, ring finger and pinky folded.
TwoFingersUp(fingers) ==
  fingers[2] /\ fingers[3] /\ ~fingers[4] /\ ~fingers[5]

SelectedName ==
  IF trial.selected = << >> THEN NoGesture ELSE trial.selected[1].gesture.name

\* C26: for a vector with index and middle finger extended and ring finger
\* and pinky folded, and a list that holds 'U' and 'V' in any order, with or
\* without 'H', 'K' and 'R', recognizeGesture selects 'V' if the fingertip
\* spread exceeds 0.35 and 'U' otherwise.
C26_SpreadSelectsUV ==
  (trial.called /\ TwoFingersUp(trial.handLandmarks.fingers)) =>
    SelectedName = (IF trial.handLandmarks.spread THEN "V" ELSE "U")

\* The same for a list of 'U' and 'V' alone and a vector whose thumb is
\* extended as well.
UVAloneWithThumb ==
  (/\ trial.called /\ TwoFingersUp(trial.handLandmarks.fingers)
   /\ trial.handLandmarks.fingers[1] /\ Len(trial.gestures) = 2) =>
    SelectedName = (IF trial.handLandmarks.spread THEN "V" ELSE "U")

\* The distance-ratio test of finger i as the claims state it.
RatioTest(i, measure) ==
  measure.ratio # NaN /\ measure.ratio > extensionThreshold(i)

\* C27: a finger whose joint angle is NaN is reported extended exactly if
\* its distance-ratio test is satisfied; the frame raises no exception and
\* is classified as its finger vector is.
C27_UndefinedAngleNotStraight ==
  trial.called =>
    /\ \A i \in 2..5 :
         trial.geometry.finger[i].degenerate =>
           (trial.fingersExtended[i] <=> RatioTest(i, trial.geometry.finger[i]))
    /\ (\E i \in 2..5 : trial.geometry.finger[i].degenerate) =>
         /\ ~trial.outcome.caught
         /\ ~trial.outcome.rejected
         /\ trial.outcome.result = classify(FrameOf(trial.fingersExtended), DetectGestures)

\* 'B' was recognised from four fingers with undefined angles, extended by
\* their ratio.
C27_Witness ==
  /\ trial.called
  /\ \A i \in 2..5 : trial.geometry.finger[i].degenerate /\ trial.fingersExtended[i]
  /\ trial.outcome.result # << >>
  /\ trial.outcome.result[1].gesture.name = "B"

\* ------------------------------------------------ claims on the tracker, further
\* C28: every confidence-history entry has a count equal to the length of
\* its confidence list, at least 1 and at most 2 x REQUIRED_MATCHES.
C28_BoundedHistory ==
  \A g \in DOMAIN confidenceHistory :
    /\ confidenceHistory[g].count = Len(confidenceHistory[g].confidences)
    /\ confidenceHistory[g].count >= 1
    /\ confidenceHistory[g].count <= 2 * REQUIRED_MATCHES

\* A held gesture has reached the highest count the cooldown lets it reach
\* while another entry is at its lowest.
C28_Witness ==
  \E g, h \in DOMAIN confidenceHistory :
    /\ confidenceHistory[g].count = 2 * REQUIRED_MATCHES - 1
    /\ Len(confidenceHistory[g].confidences) = 2 * REQUIRED_MATCHES - 1
    /\ confidenceHistory[h].count = 1

\* The step was a processed frame with a hand that gave no result, or a
\* result whose confidence is not above 0.8.
NotQualifyingFrame ==
  \/ step'.kind = "noresult"
  \/ /\ step'.kind \in {"lowconf", "match"}
     /\ step'.confidence <= QualifyThreshold

\* C29: a frame with a hand but no result, or a result not above 0.8, leaves
\* the history map, the last detected gesture and the cooldown counter as
\* they were; a qualifying frame for G leaves every entry other than G's as
\* it was and creates none.
C29_FrameTouchesOnlyItsGesture ==
  [][/\ NotQualifyingFrame =>
          UNCHANGED << confidenceHistory, lastDetectedGesture, detectionCount >>
     /\ step'.kind = "match" =>
          /\ DOMAIN confidenceHistory' = DOMAIN confidenceHistory \cup {step'.gesture}
          /\ \A h \in DOMAIN confidenceHistory :
               h # step'.gesture => confidenceHistory'[h] = confidenceHistory[h]]_vars

\* A result below the tracker's threshold came while another gesture was
\* counted and under cooldown.
C29_Witness ==
  /\ step.kind = "lowconf"
  /\ ~MapHas(confidenceHistory, step.gesture)
  /\ confidenceHistory # EmptyMap
  /\ lastDetectedGesture # NoGesture
  /\ detectionCount > 0

====
